---- MODULE Spec2Model ----
(***************************************************************************)
(* The ImageUsage gatherer of lighthouse-core: one pass of afterPass, in   *)
(* its two versions.                                                       *)
(*   "parallel": gather/gatherers/image-usage.js, which enriches the       *)
(*               snapshot with Promise.all;                                *)
(*   "serial":   the later version of the same file, which enriches it     *)
(*               with a promise chain built by elements.reduce.            *)
(* A JavaScript value that may be undefined is a sequence of length at     *)
(* most one: <<>> is undefined and <<v>> is the value v.  An object the    *)
(* code holds by reference is an index into the sequence elements.         *)
(***************************************************************************)
EXTENDS Integers, Sequences, FiniteSets, TLC

VARIABLES
  strategy,               \* which version of afterPass runs
  passState,              \* "idle", "pending", "resolved", "rejected", "thrown"
  passResult,             \* what the promise returned by afterPass resolved to
  passError,              \* what it rejected with (or what afterPass threw)
  networkRecords,         \* traceData.networkRecords, as passed to afterPass
  indexedNetworkRecords,  \* the object built by networkRecords.reduce
  reduceAt,               \* how many records the reduce has visited
  snapshotCall,           \* the evaluateAsync call of the collection script
  snapshot,               \* the elements as that call returned them
  elements,               \* the same objects, as the pass mutates them
  calls,                  \* the evaluateAsync call of determineNaturalSize, per element
  settleOrder,            \* the elements whose call has settled, in settling order
  values,                 \* Promise.all: the value of each input promise
  collector,              \* the array the promise chain pushes into
  thisDriver,             \* this.driver of the gatherer instance
  sentTo,                 \* the driver each size call was sent to
  firstRun,               \* the outcome of an earlier pass over the same inputs
  tableArgs,              \* the arguments of Table.createTable
  table,                  \* what Table.createTable returned
  formatted,              \* what the 'pretty' formatter returned
  document,               \* the img elements of the page
  collected,              \* what the collection script has mapped so far
  srcset,                 \* the argument of parseSrcsetUrls
  srcsetUrls              \* what parseSrcsetUrls returned

passVars == <<strategy, passState, passResult, passError, networkRecords,
              indexedNetworkRecords, reduceAt, snapshotCall, snapshot,
              elements, calls, settleOrder, values, collector, thisDriver,
              sentTo>>

\* The variables of the other functions of the repository.
auxVars == <<tableArgs, table, formatted, document, collected, srcset,
             srcsetUrls>>

vars == <<passVars, firstRun, auxVars>>

----------------------------------------------------------------------------
(* Bounds of the model. *)

MaxTransfers == 3
MaxCapture == 1
MaxElements == 3
MaxBothElements == 2
MaxResults == 2
MaxImgs == 1
MaxSources == 2
MaxSrcsetLen == 4

----------------------------------------------------------------------------
(* Values. *)

Undefined == <<>>
Some(v) == <<v>>
IsDefined(o) == o # <<>>

SeqsUpTo(S, n) == UNION {[1..k -> S] : k \in 0..n}

Urls == {"a", "b"}
MimeTypes == {Some(<<"image", "png">>), Some(<<"text", "css">>), Undefined}
ResourceSizes == {1, 2}

\* A record of the network capture, with the fields afterPass reads.
Transfers == [_url : Urls, _mimeType : MimeTypes, resourceSize : ResourceSizes]

ElementSrcs == {"", "a"}
ReportedSizes == {[naturalWidth |-> 0, naturalHeight |-> 0]}
ResolvedSizes == {[naturalWidth |-> 100, naturalHeight |-> 50],
                  [naturalWidth |-> 7, naturalHeight |-> 9]}
Errors == {"ImageLoadError", "ProtocolError"}

\* What the collection script returns for one img: toObject plus isPicture,
\* and for an img inside a picture the JSON string of its sources, here of
\* a picture without SOURCE children (the sources are the img alone).
ImageTagInfo(src, isPicture, size) ==
  [tagName |-> "IMG", src |-> src, srcset |-> "",
   clientWidth |-> 10, clientHeight |-> 20, isPicture |-> isPicture,
   naturalWidth |-> size.naturalWidth, naturalHeight |-> size.naturalHeight,
   sources |-> IF isPicture
                 THEN Some([form |-> "json", items |-> <<src>>])
                 ELSE Undefined,
   networkRecord |-> Undefined]

SnapshotElements ==
  {ImageTagInfo(s, p, z) : s \in ElementSrcs, p \in BOOLEAN, z \in ReportedSizes}

NoCall == [status |-> "none", value |-> Undefined]

----------------------------------------------------------------------------
(* The Network Record Index: traceData.networkRecords.reduce(..., {}).     *)
(* The object map is the set of its properties, [key, value].              *)

\* map[key] = value: the property is created, or its value replaced.
SetProperty(map, key, value) ==
  {e \in map : e.key # key} \cup {[key |-> key, value |-> value]}

\* map[key]: the value of the property, undefined when there is none.
GetProperty(map, key) ==
  IF \E e \in map : e.key = key
    THEN Some((CHOOSE e \in map : e.key = key).value)
    ELSE Undefined

\* /^image/.test(record._mimeType): the mime type starts with "image".
\* An undefined mime type is tested as the string "undefined".
TestImage(mimeType) == IsDefined(mimeType) /\ mimeType[1][1] = "image"

\* The reduced projection of a record.  record.url reads record._url; the
\* timing fields are copied the same way and are left out here.
Pick(record) == [url |-> record._url, resourceSize |-> record.resourceSize]

\* A reducer that never replaces a property it has already set.
ReduceCallbackFirstWins(map, record) ==
  IF TestImage(record._mimeType) /\ ~IsDefined(GetProperty(map, record._url))
    THEN SetProperty(map, record._url, Pick(record))
    ELSE map

\* A reducer that does not look at the mime type.
ReduceCallbackNoFilter(map, record) ==
  SetProperty(map, record._url, Pick(record))

\* The callback of the reduce.
ReduceCallback(map, record) ==
  IF TestImage(record._mimeType)
    THEN SetProperty(map, record._url, Pick(record))
    ELSE map

RECURSIVE ReduceFrom(_, _, _)
ReduceFrom(map, records, k) ==
  IF k > Len(records) THEN map
  ELSE ReduceFrom(ReduceCallback(map, records[k]), records, k + 1)

\* indexedNetworkRecords, as afterPass computes it.
IndexNetworkRecords(records) == ReduceFrom({}, records, 1)

----------------------------------------------------------------------------
(* The callbacks of afterPass. *)

\* JSON.parse of a string JSON.stringify made: the same items, as an array.
JSONParse(json) == [json EXCEPT !.form = "array"]

\* Rehydrate the sources property and link the tag to its network record.
LinkTag(tag) ==
  [tag EXCEPT !.sources = IF IsDefined(@) THEN Some(JSONParse(@[1])) ELSE @,
              !.networkRecord = GetProperty(indexedNetworkRecords, tag.src)]

\* A condition that asks for the size of every picture.
NeedsSizeAnyPicture(tag) == tag.isPicture

\* tag.isPicture && tag.networkRecord
NeedsSize(tag) == tag.isPicture /\ IsDefined(tag.networkRecord)

\* A merge that keeps the size and loses what afterPass had attached.
ObjectAssignFresh(tag, size) ==
  [tag EXCEPT !.naturalWidth = size.naturalWidth,
              !.naturalHeight = size.naturalHeight,
              !.sources = Undefined,
              !.networkRecord = Undefined]

\* Object.assign(tag, size)
ObjectAssign(tag, size) ==
  [tag EXCEPT !.naturalWidth = size.naturalWidth,
              !.naturalHeight = size.naturalHeight]

\* A callback that has lost its own tag and writes to the last one.
ApplySizeToLast(els, i, size) ==
  [els EXCEPT ![Len(els)] = ObjectAssign(els[Len(els)], size)]

\* The then-callback of fetchTagWithSizeInformation(tag), tag being element i.
ApplySize(els, i, size) == [els EXCEPT ![i] = ObjectAssign(els[i], size)]

\* An aggregation that stores each value in the first free place.
AllSettleByCompletion(vals, i, ref) ==
  LET free == CHOOSE k \in DOMAIN vals :
                /\ ~IsDefined(vals[k])
                /\ \A j \in DOMAIN vals : j < k => IsDefined(vals[j])
  IN  [vals EXCEPT ![free] = Some(ref)]

\* Promise.all: the value of the i-th promise is stored at place i.
AllSettle(vals, i, ref) == [vals EXCEPT ![i] = Some(ref)]

AllResolved(vals) == \A k \in DOMAIN vals : IsDefined(vals[k])
\* An aggregation that hands the values over last first.
AllValuesReversed(vals) == [k \in DOMAIN vals |-> vals[Len(vals) + 1 - k][1]]

\* Promise.all: the array it fulfils with.
AllValues(vals) == [k \in DOMAIN vals |-> vals[k][1]]

\* A handler that turns a failed collection script into an empty result.
SnapshotRejectionSwallowed(e) ==
  [passState |-> "resolved", passError |-> Undefined, passResult |-> Some(<<>>)]

\* The collection script's promise rejects: .then(tags => ...) has no
\* rejection handler, so the promise afterPass returned rejects with e.
SnapshotRejection(e) ==
  [passState |-> "rejected", passError |-> Some(e), passResult |-> Undefined]

\* A handler that gives up on the rest and returns what was collected.
SizeRejectionPartial(e) ==
  [passState |-> "resolved", passError |-> Undefined,
   passResult |-> Some(collector)]

\* A size call rejects: neither fetchTagWithSizeInformation nor afterPass
\* handles it, so Promise.all, or the promise chain, rejects with e.
SizeRejection(e) ==
  [passState |-> "rejected", passError |-> Some(e), passResult |-> Undefined]

InFlight == [status |-> "inflight", value |-> Undefined]

\* A chain that leaves out the elements it finds no network record for.
RECURSIVE SerialChainSkipUnmatched(_, _, _, _)
SerialChainSkipUnmatched(els, cls, coll, k) ==
  IF k > Len(els)
    THEN [elements |-> els, calls |-> cls, collector |-> coll, done |-> TRUE]
    ELSE LET tag == LinkTag(els[k])
             linked == [els EXCEPT ![k] = tag]
         IN  IF NeedsSize(tag)
               THEN [elements |-> linked,
                     calls |-> [cls EXCEPT ![k] = InFlight],
                     collector |-> coll, done |-> FALSE]
               ELSE SerialChainSkipUnmatched(
                      linked, cls,
                      IF IsDefined(tag.networkRecord) THEN Append(coll, k) ELSE coll,
                      k + 1)

\* A chain that issues a size call and goes on without waiting for it.
RECURSIVE SerialChainNoWait(_, _, _, _)
SerialChainNoWait(els, cls, coll, k) ==
  IF k > Len(els)
    THEN [elements |-> els, calls |-> cls, collector |-> coll,
          done |-> \A i \in DOMAIN cls : cls[i].status # "inflight"]
    ELSE LET tag == LinkTag(els[k])
             linked == [els EXCEPT ![k] = tag]
         IN  IF NeedsSize(tag) /\ cls[k].status = "none"
               THEN SerialChainNoWait(linked, [cls EXCEPT ![k] = InFlight],
                                      coll, k + 1)
               ELSE SerialChainNoWait(linked, cls, Append(coll, k), k + 1)

\* The promise chain from element k on: every callback that runs before the
\* chain has to wait for a size call, or reaches its end.
RECURSIVE SerialChain(_, _, _, _)
SerialChain(els, cls, coll, k) ==
  IF k > Len(els)
    THEN [elements |-> els, calls |-> cls, collector |-> coll, done |-> TRUE]
    ELSE LET tag == LinkTag(els[k])
             linked == [els EXCEPT ![k] = tag]
         IN  IF NeedsSize(tag)
               THEN [elements |-> linked,
                     calls |-> [cls EXCEPT ![k] = InFlight],
                     collector |-> coll, done |-> FALSE]
               ELSE SerialChain(linked, cls, Append(coll, k), k + 1)

----------------------------------------------------------------------------
(* One pass. *)

\* options.driver of the pass, and the driver of another pass.
PassDriver == "d1"
OtherDriver == "d2"

\* this.driver.evaluateAsync(...): every call that has just been issued goes
\* to the driver this.driver holds at that moment.
SendTo(old, cls) ==
  [i \in DOMAIN cls |->
     IF i \in DOMAIN old /\ IsDefined(old[i]) THEN old[i]
     ELSE IF cls[i].status = "inflight" THEN thisDriver
     ELSE Undefined]

\* No pass has been started.
PassIdle ==
  /\ strategy = "parallel"
  /\ passState = "idle"
  /\ passResult = Undefined
  /\ passError = Undefined
  /\ networkRecords = Undefined
  /\ indexedNetworkRecords = {}
  /\ reduceAt = 0
  /\ snapshotCall = NoCall
  /\ snapshot = <<>>
  /\ elements = <<>>
  /\ calls = <<>>
  /\ settleOrder = <<>>
  /\ values = <<>>
  /\ collector = <<>>
  /\ thisDriver = Undefined
  /\ sentTo = <<>>
  /\ firstRun = Undefined

\* Nothing has been called yet on the other functions.
AuxIdle ==
  /\ tableArgs = Undefined
  /\ table = Undefined
  /\ formatted = Undefined
  /\ document = <<>>
  /\ collected = <<>>
  /\ srcset = Undefined
  /\ srcsetUrls = Undefined

Captures == {Undefined} \cup {Some(r) : r \in SeqsUpTo(Transfers, MaxCapture)}
Snapshots == SeqsUpTo(SnapshotElements, MaxElements)

Init ==
  /\ strategy \in {"parallel", "serial"}
  /\ passState = "idle"
  /\ passResult = Undefined
  /\ passError = Undefined
  /\ networkRecords = Undefined
  /\ indexedNetworkRecords = {}
  /\ reduceAt = 0
  /\ snapshotCall = NoCall
  /\ snapshot = <<>>
  /\ elements = <<>>
  /\ calls = <<>>
  /\ settleOrder = <<>>
  /\ values = <<>>
  /\ collector = <<>>
  /\ thisDriver = Undefined
  /\ sentTo = <<>>
  /\ firstRun = Undefined
  /\ AuxIdle

\* afterPass(options, traceData), up to its return.  Reading reduce from an
\* undefined networkRecords throws a TypeError before anything is sent to
\* the driver.
AfterPass(capture) ==
  /\ passState = "idle"
  /\ thisDriver' = Some(PassDriver)
  /\ networkRecords' = capture
  /\ IF IsDefined(capture)
       THEN /\ indexedNetworkRecords' = IndexNetworkRecords(capture[1])
            /\ reduceAt' = Len(capture[1])
            /\ snapshotCall' = InFlight
            /\ passState' = "pending"
            /\ passError' = passError
       ELSE /\ passState' = "thrown"
            /\ passError' = Some("TypeError")
            /\ UNCHANGED <<indexedNetworkRecords, reduceAt, snapshotCall>>
  /\ UNCHANGED <<strategy, passResult, snapshot, elements, calls, settleOrder,
                 values, collector, sentTo, firstRun, auxVars>>

\* The collection script fails.
SnapshotReject(e) ==
  /\ snapshotCall.status = "inflight"
  /\ snapshotCall' = [status |-> "rejected", value |-> Some(e)]
  /\ passState' = SnapshotRejection(e).passState
  /\ passError' = SnapshotRejection(e).passError
  /\ passResult' = SnapshotRejection(e).passResult
  /\ UNCHANGED <<strategy, networkRecords, indexedNetworkRecords, reduceAt,
                 snapshot, elements, calls, settleOrder, values, collector,
                 thisDriver, sentTo, firstRun, auxVars>>

\* The collection script returns tags: the then-callback of afterPass and
\* every callback that runs before the pass has to wait for the driver.
SnapshotResolve(tags) ==
  /\ snapshotCall.status = "inflight"
  /\ snapshotCall' = [status |-> "resolved", value |-> Undefined]
  /\ snapshot' = tags
  /\ settleOrder' = <<>>
  /\ IF strategy = "parallel"
       THEN LET linked == [i \in DOMAIN tags |-> LinkTag(tags[i])]
                vals == [i \in DOMAIN tags |->
                           IF NeedsSize(linked[i]) THEN Undefined ELSE Some(i)]
            IN  /\ elements' = linked
                /\ calls' = [i \in DOMAIN tags |->
                               IF NeedsSize(linked[i]) THEN InFlight ELSE NoCall]
                /\ values' = vals
                /\ collector' = collector
                /\ IF AllResolved(vals)
                     THEN /\ passState' = "resolved"
                          /\ passResult' = Some(AllValues(vals))
                     ELSE UNCHANGED <<passState, passResult>>
       ELSE LET run == SerialChain(tags, [i \in DOMAIN tags |-> NoCall], <<>>, 1)
            IN  /\ elements' = run.elements
                /\ calls' = run.calls
                /\ collector' = run.collector
                /\ values' = values
                /\ IF run.done
                     THEN /\ passState' = "resolved"
                          /\ passResult' = Some(run.collector)
                     ELSE UNCHANGED <<passState, passResult>>
  /\ sentTo' = SendTo(<<>>, calls')
  /\ UNCHANGED <<strategy, passError, networkRecords, indexedNetworkRecords,
                 reduceAt, thisDriver, firstRun, auxVars>>

\* The size call of element i returns size.
SizeResolve(i, size) ==
  /\ i \in DOMAIN calls
  /\ calls[i].status = "inflight"
  /\ settleOrder' = Append(settleOrder, i)
  /\ IF strategy = "parallel"
       THEN LET vals == AllSettle(values, i, i)
            IN  /\ elements' = ApplySize(elements, i, size)
                /\ calls' = [calls EXCEPT ![i] =
                               [status |-> "resolved", value |-> Some(size)]]
                /\ values' = vals
                /\ collector' = collector
                /\ IF passState = "pending" /\ AllResolved(vals)
                     THEN /\ passState' = "resolved"
                          /\ passResult' = Some(AllValues(vals))
                     ELSE UNCHANGED <<passState, passResult>>
       ELSE LET run == SerialChain(
                         ApplySize(elements, i, size),
                         [calls EXCEPT ![i] =
                            [status |-> "resolved", value |-> Some(size)]],
                         Append(collector, i), i + 1)
            IN  /\ elements' = run.elements
                /\ calls' = run.calls
                /\ collector' = run.collector
                /\ values' = values
                /\ IF run.done
                     THEN /\ passState' = "resolved"
                          /\ passResult' = Some(run.collector)
                     ELSE UNCHANGED <<passState, passResult>>
  /\ sentTo' = SendTo(sentTo, calls')
  /\ UNCHANGED <<strategy, passError, networkRecords, indexedNetworkRecords,
                 reduceAt, snapshotCall, snapshot, thisDriver, firstRun,
                 auxVars>>

\* The size call of element i fails with e.  Promise.all keeps its first
\* rejection; the calls still in flight are not cancelled.
SizeReject(i, e) ==
  /\ i \in DOMAIN calls
  /\ calls[i].status = "inflight"
  /\ settleOrder' = Append(settleOrder, i)
  /\ calls' = [calls EXCEPT ![i] = [status |-> "rejected", value |-> Some(e)]]
  /\ IF passState = "pending"
       THEN /\ passState' = SizeRejection(e).passState
            /\ passError' = SizeRejection(e).passError
            /\ passResult' = SizeRejection(e).passResult
       ELSE UNCHANGED <<passState, passError, passResult>>
  /\ UNCHANGED <<strategy, networkRecords, indexedNetworkRecords, reduceAt,
                 snapshotCall, snapshot, elements, values, collector,
                 thisDriver, sentTo, firstRun, auxVars>>

Next ==
  \/ \E capture \in Captures : AfterPass(capture)
  \/ \E e \in Errors : SnapshotReject(e)
  \/ \E tags \in Snapshots : SnapshotResolve(tags)
  \/ \E i \in 1..(MaxElements + 1), size \in ResolvedSizes : SizeResolve(i, size)
  \/ \E i \in 1..(MaxElements + 1), e \in Errors : SizeReject(i, e)

Spec == Init /\ [][Next]_vars

----------------------------------------------------------------------------
(* The reduce on its own, one record at a time. *)

InitIndex ==
  /\ strategy = "parallel"
  /\ passState = "idle"
  /\ passResult = Undefined
  /\ passError = Undefined
  /\ networkRecords \in {Some(r) : r \in SeqsUpTo(Transfers, MaxTransfers)}
  /\ indexedNetworkRecords = {}
  /\ reduceAt = 0
  /\ snapshotCall = NoCall
  /\ snapshot = <<>>
  /\ elements = <<>>
  /\ calls = <<>>
  /\ settleOrder = <<>>
  /\ values = <<>>
  /\ collector = <<>>
  /\ thisDriver = Undefined
  /\ sentTo = <<>>
  /\ firstRun = Undefined
  /\ AuxIdle

\* One call of the reduce callback.
ReduceStep ==
  /\ reduceAt < Len(networkRecords[1])
  /\ indexedNetworkRecords' =
       ReduceCallback(indexedNetworkRecords, networkRecords[1][reduceAt + 1])
  /\ reduceAt' = reduceAt + 1
  /\ UNCHANGED <<strategy, passState, passResult, passError, networkRecords,
                 snapshotCall, snapshot, elements, calls, settleOrder, values,
                 collector, thisDriver, sentTo, firstRun, auxVars>>

NextIndex == ReduceStep

SpecIndex == InitIndex /\ [][NextIndex]_vars

----------------------------------------------------------------------------
(* What the claims speak of, stated from the inputs of the pass. *)

Capture == IF IsDefined(networkRecords) THEN networkRecords[1] ELSE <<>>

\* An image transfer of the capture has this URL.
ImageTransferFor(url) ==
  \E j \in DOMAIN Capture :
    /\ Capture[j]._url = url
    /\ IsDefined(Capture[j]._mimeType)
    /\ Capture[j]._mimeType[1][1] = "image"

\* Element i of the snapshot is a picture with a matched network record.
Qualifies(i) == snapshot[i].isPicture /\ ImageTransferFor(snapshot[i].src)

Issued(i) == calls[i].status # "none"

NaturalSize(r) == [naturalWidth |-> r.naturalWidth, naturalHeight |-> r.naturalHeight]

SnapshotReturned == snapshotCall.status = "resolved"

\* C1: whenever the pass resolves, with either strategy and whatever the
\* order in which the size calls settled, its result has one entry per
\* element of the snapshot and the i-th entry is the i-th element; and a
\* pass whose size calls have all succeeded has resolved.
C1_OrderPreserved ==
  /\ passState = "resolved" =>
       /\ IsDefined(passResult)
       /\ Len(passResult[1]) = Len(snapshot)
       /\ \A i \in DOMAIN snapshot : passResult[1][i] = i
  /\ ( /\ SnapshotReturned
       /\ \A i \in DOMAIN calls : calls[i].status \in {"none", "resolved"} )
     => passState = "resolved"

\* Three elements, the size call of a later one settling before the size
\* call of an earlier one, and the pass resolved.
C1_Witness ==
  /\ passState = "resolved"
  /\ strategy = "parallel"
  /\ Len(snapshot) = 3
  /\ \E j, k \in DOMAIN settleOrder : j < k /\ settleOrder[j] > settleOrder[k]

\* C2: once every size call has settled, one of them by a rejection, the
\* pass has resolved with the whole sequence, the record of a rejected call
\* has the natural size the snapshot reported and every other record has the
\* size its own call returned.
C2_SoftFailure ==
  ( /\ SnapshotReturned
    /\ \A i \in DOMAIN calls : calls[i].status # "inflight"
    /\ \E i \in DOMAIN calls : calls[i].status = "rejected" )
  => /\ passState = "resolved"
     /\ IsDefined(passResult)
     /\ Len(passResult[1]) = Len(snapshot)
     /\ \A i \in DOMAIN snapshot :
          NaturalSize(elements[i]) =
            IF calls[i].status = "resolved" THEN calls[i].value[1]
            ELSE NaturalSize(snapshot[i])

\* C3: a size call is only ever issued for a picture with a matched network
\* record, and it is issued for every such record the pass has gone through;
\* a picture without a network record and a non-picture with one get none.
C3_CallIffQualifies ==
  /\ \A i \in DOMAIN calls : Issued(i) => Qualifies(i)
  /\ \A i \in DOMAIN calls :
       (Qualifies(i) /\ (strategy = "parallel" \/ i <= Len(collector)))
         => Issued(i)
  /\ passState = "resolved" =>
       \A i \in DOMAIN snapshot : Issued(i) <=> Qualifies(i)

\* A resolved pass with a picture that has no network record and got no
\* call, a non-picture that has a network record and got no call, and a
\* picture with a network record whose call was issued.
C3_Witness ==
  /\ passState = "resolved"
  /\ \E i, j, k \in DOMAIN snapshot :
       /\ snapshot[i].isPicture /\ ~ImageTransferFor(snapshot[i].src)
       /\ ~Issued(i)
       /\ ~snapshot[j].isPicture /\ ImageTransferFor(snapshot[j].src)
       /\ ~Issued(j)
       /\ Issued(k)

\* C4: a record has the natural size its own size call returned when that
\* call succeeded, and the natural size the snapshot reported in every other
\* case; so it is in the result of a resolved pass.
C4_SizeFromOwnCall ==
  \A i \in DOMAIN elements :
    NaturalSize(elements[i]) =
      IF calls[i].status = "resolved" THEN calls[i].value[1]
      ELSE NaturalSize(snapshot[i])

\* A resolved pass in which two calls returned different sizes and a third
\* record did not qualify.
C4_Witness ==
  /\ passState = "resolved"
  /\ \E i, j, k \in DOMAIN elements :
       /\ calls[i].status = "resolved" /\ calls[j].status = "resolved"
       /\ calls[i].value # calls[j].value
       /\ calls[k].status = "none"
       /\ i < k

\* C5: the result of a resolved pass holds every element of the snapshot
\* exactly once, and an element whose src is empty or is the URL of no image
\* transfer is in it, with networkRecord undefined.
C5_NoneDropped ==
  passState = "resolved" =>
    /\ IsDefined(passResult)
    /\ Len(passResult[1]) = Len(snapshot)
    /\ \A i \in DOMAIN snapshot :
         /\ Cardinality({k \in DOMAIN passResult[1] : passResult[1][k] = i}) = 1
         /\ ~ImageTransferFor(snapshot[i].src) =>
              elements[i].networkRecord = Undefined

\* A resolved pass over an element with an empty src and an element whose
\* src is the URL of no image transfer of a capture that is not empty.
C5_Witness ==
  /\ passState = "resolved"
  /\ Capture # <<>>
  /\ \E i, j \in DOMAIN snapshot :
       /\ snapshot[i].src = ""
       /\ snapshot[j].src # "" /\ ~ImageTransferFor(snapshot[j].src)

\* The records the reduce has visited so far.
Visited == 1..reduceAt

ImageAt(j) ==
  /\ IsDefined(Capture[j]._mimeType)
  /\ Capture[j]._mimeType[1][1] = "image"

\* The image transfers with this URL among the visited records.
ImagesOf(url) == {j \in Visited : ImageAt(j) /\ Capture[j]._url = url}

Last(S) == CHOOSE j \in S : \A k \in S : k <= j

EntriesOf(url) == {e \in indexedNetworkRecords : e.key = url}

\* C6: after any number of records, the index has at most one entry per URL,
\* and the entry of a URL that several image transfers share is the
\* projection of the last of them.
C6_LastOneWins ==
  \A url \in Urls :
    /\ Cardinality(EntriesOf(url)) <= 1
    /\ ImagesOf(url) # {} =>
         \E e \in EntriesOf(url) :
           /\ e.value.url = Capture[Last(ImagesOf(url))]._url
           /\ e.value.resourceSize = Capture[Last(ImagesOf(url))].resourceSize

\* The reduce is over, two image transfers had the same URL and different
\* sizes, and a second URL is indexed too.
C6_Witness ==
  /\ reduceAt = Len(Capture)
  /\ Cardinality(indexedNetworkRecords) = 2
  /\ \E j, k \in Visited :
       /\ j < k
       /\ ImageAt(j) /\ ImageAt(k)
       /\ Capture[j]._url = Capture[k]._url
       /\ Capture[j].resourceSize # Capture[k].resourceSize

\* C7: the index has an entry for a URL exactly when an image transfer with
\* that URL has been visited, and the entry is the projection of an image
\* transfer: a transfer with another mime type, or with none, neither
\* creates, replaces nor removes an entry.
C7_ImagesOnly ==
  \A url \in Urls :
    /\ EntriesOf(url) # {} <=> ImagesOf(url) # {}
    /\ \A e \in EntriesOf(url) :
         \E j \in ImagesOf(url) :
           e.value.resourceSize = Capture[j].resourceSize

\* The reduce is over; an image transfer was followed by a transfer of
\* another mime type and by one with no mime type, both with the same URL
\* and another size, and the entry is still that of the image transfer.
C7_Witness ==
  /\ reduceAt = Len(Capture)
  /\ Len(Capture) = 3
  /\ ImageAt(1)
  /\ Capture[2]._url = Capture[1]._url /\ Capture[3]._url = Capture[1]._url
  /\ Capture[2]._mimeType = Some(<<"text", "css">>)
  /\ Capture[3]._mimeType = Undefined
  /\ Capture[2].resourceSize # Capture[1].resourceSize
  /\ Capture[3].resourceSize # Capture[1].resourceSize
  /\ \E e \in indexedNetworkRecords : e.value.resourceSize = Capture[1].resourceSize

\* C8: a pass started with an empty or an undefined network capture does not
\* fail for that: afterPass does not throw, no size call is issued, the pass
\* resolves once the snapshot is there, and no record of the result has a
\* network record.
C8_EmptyCaptureValid ==
  (passState # "idle" /\ Capture = <<>>) =>
    /\ passState # "thrown"
    /\ \A i \in DOMAIN calls : ~Issued(i)
    /\ SnapshotReturned => passState = "resolved"
    /\ \A i \in DOMAIN elements : elements[i].networkRecord = Undefined

\* C9: when the collection script fails, the pass is rejected with the error
\* of that call, it has no result and no size call has been issued.
C9_SnapshotFailureFatal ==
  snapshotCall.status = "rejected" =>
    /\ passState = "rejected"
    /\ passError = snapshotCall.value
    /\ passResult = Undefined
    /\ \A i \in DOMAIN calls : ~Issued(i)

\* The collection script has failed with a protocol error.
C9_Witness ==
  /\ snapshotCall.status = "rejected"
  /\ snapshotCall.value = Some("ProtocolError")
  /\ Capture # <<>>

\* C10: once a size call has failed the pass is rejected and has no result;
\* a pass that has a result has one entry per element of the snapshot and no
\* size call that failed or is still in flight.
C10_NoPartialResult ==
  /\ (\E i \in DOMAIN calls : calls[i].status = "rejected") =>
       passState = "rejected" /\ passResult = Undefined
  /\ IsDefined(passResult) =>
       /\ passState = "resolved"
       /\ Len(passResult[1]) = Len(snapshot)
       /\ \A i \in DOMAIN calls : calls[i].status \in {"none", "resolved"}

\* A size call failed with a protocol error after the size call of an
\* earlier record had succeeded, with the serial strategy.
C10_Witness ==
  /\ strategy = "serial"
  /\ passState = "rejected"
  /\ \E i, j \in DOMAIN calls :
       /\ i < j
       /\ calls[i].status = "resolved"
       /\ calls[j] = [status |-> "rejected", value |-> Some("ProtocolError")]

InFlightCalls == {i \in DOMAIN calls : calls[i].status = "inflight"}
Settled(i) == calls[i].status \in {"resolved", "rejected"}

\* C11: with the serial strategy at most one size call is in flight at any
\* moment, a call has been issued only if the call of every earlier
\* qualifying record has settled, and the calls settle in snapshot order.
C11_OneAtATime ==
  strategy = "serial" =>
    /\ Cardinality(InFlightCalls) <= 1
    /\ \A i, j \in DOMAIN calls :
         (i < j /\ Issued(j) /\ Qualifies(i)) => Settled(i)
    /\ \A j, k \in DOMAIN settleOrder : j < k => settleOrder[j] < settleOrder[k]

\* With the serial strategy the first call has settled, the second is in
\* flight and a third qualifying record has no call yet.
C11_Witness ==
  /\ strategy = "serial"
  /\ \E i, j, k \in DOMAIN calls :
       /\ i < j /\ j < k
       /\ calls[i].status = "resolved"
       /\ calls[j].status = "inflight"
       /\ Qualifies(k) /\ ~Issued(k)

\* C12: with the parallel strategy the size calls of all qualifying records
\* are issued as soon as the snapshot is there, and the pass has an outcome
\* only when none of them is still in flight.
C12_AllIssuedAllSettled ==
  (strategy = "parallel" /\ SnapshotReturned) =>
    /\ \A i \in DOMAIN calls : Qualifies(i) => Issued(i)
    /\ passState \in {"resolved", "rejected"} => InFlightCalls = {}

\* A record without its natural size.
WithoutSize(r) == [r EXCEPT !.naturalWidth = 0, !.naturalHeight = 0]

\* The fields the collection script reported, sources by their items.
Reported(r) ==
  [tagName |-> r.tagName, src |-> r.src, srcset |-> r.srcset,
   clientWidth |-> r.clientWidth, clientHeight |-> r.clientHeight,
   isPicture |-> r.isPicture,
   sources |-> IF IsDefined(r.sources) THEN Some(r.sources[1].items)
               ELSE Undefined]

C17_Frame ==
  \A i \in DOMAIN elements :
    /\ Reported(elements[i]) = Reported(snapshot[i])
    /\ ~Qualifies(i) => NaturalSize(elements[i]) = NaturalSize(snapshot[i])
    /\ passState = "resolved" => passResult[1][i] = i

C17_CallStep ==
  \A i \in DOMAIN calls :
    (calls[i].status = "inflight" /\ calls'[i].status = "resolved")
      => WithoutSize(elements'[i]) = WithoutSize(elements[i])

\* C17: every record keeps the fields the snapshot reported; a record that
\* does not qualify keeps its natural size too and is at its own place in
\* the result; and the step in which a size call succeeds changes, in its
\* record, naturalWidth and naturalHeight only (src, srcset, clientWidth,
\* clientHeight, isPicture, sources and networkRecord stay).
C17_OnlySizeChanges == []C17_Frame /\ [][C17_CallStep]_vars

\* A resolved pass whose second record had its size resolved, between two
\* records that did not qualify, one of them a picture.
C17_Witness ==
  /\ passState = "resolved"
  /\ Len(snapshot) = 3
  /\ calls[2].status = "resolved"
  /\ NaturalSize(elements[2]) # NaturalSize(snapshot[2])
  /\ ~Qualifies(1) /\ ~Qualifies(3)
  /\ snapshot[1].isPicture
  /\ IsDefined(elements[3].networkRecord)

----------------------------------------------------------------------------
(* One pass whose remote calls all settle in the end. *)

SnapshotSettles ==
  \/ \E e \in Errors : SnapshotReject(e)
  \/ \E tags \in Snapshots : SnapshotResolve(tags)

SizeSettles(i) ==
  \/ \E size \in ResolvedSizes : SizeResolve(i, size)
  \/ \E e \in Errors : SizeReject(i, e)

SpecFair ==
  /\ Init
  /\ [][Next]_vars
  /\ WF_vars(SnapshotSettles)
  /\ \A i \in 1..(MaxElements + 1) : WF_vars(SizeSettles(i))

PassPending == passState = "pending"
PassSettled == passState \in {"resolved", "rejected"}

\* Once its remote calls settle, a pending pass resolves or rejects.
C15_Terminates == PassPending ~> PassSettled

\* C15: a pending pass whose remote calls all settle ends up resolved or
\* rejected, and a pass with a size call that has not settled is pending
\* (nothing but the settling of its calls ends a pass).
C15_SettlesOrPends ==
  /\ PassPending ~> PassSettled
  /\ [](InFlightCalls # {} => PassPending)

----------------------------------------------------------------------------
(* The pass, with afterPass called a second time on the same gatherer      *)
(* instance for another driver.  What that other pass keeps in the locals  *)
(* of its own afterPass call cannot be reached from this one; what the two *)
(* share is the instance, that is this.driver.                             *)

\* afterPass(options, ...) of the other pass: this.driver = options.driver.
OtherAfterPass ==
  /\ thisDriver # Some(OtherDriver)
  /\ thisDriver' = Some(OtherDriver)
  /\ UNCHANGED <<strategy, passState, passResult, passError, networkRecords,
                 indexedNetworkRecords, reduceAt, snapshotCall, snapshot,
                 elements, calls, settleOrder, values, collector, sentTo,
                 firstRun, auxVars>>

NextTwo ==
  \/ \E capture \in Captures : AfterPass(capture)
  \/ \E e \in Errors : SnapshotReject(e)
  \/ \E tags \in Snapshots : SnapshotResolve(tags)
  \/ \E i \in 1..(MaxElements + 1), size \in ResolvedSizes : SizeResolve(i, size)
  \/ \E i \in 1..(MaxElements + 1), e \in Errors : SizeReject(i, e)
  \/ OtherAfterPass

SpecTwo == Init /\ [][NextTwo]_vars

\* C16: every size call of the pass is sent to the driver the pass was
\* started with, whatever another pass on the same instance does.
C16_OwnDriver ==
  \A i \in DOMAIN sentTo :
    IsDefined(sentTo[i]) => sentTo[i] = Some(PassDriver)

----------------------------------------------------------------------------
(* The two versions one after the other on the same inputs: a pass of the  *)
(* parallel version runs until all its calls have settled, then a pass of  *)
(* the serial version is given the same capture, the same answer of the    *)
(* collection script and, for each record, the same answer of its size     *)
(* call.                                                                   *)

InitBoth ==
  /\ strategy = "parallel"
  /\ passState = "idle"
  /\ passResult = Undefined
  /\ passError = Undefined
  /\ networkRecords = Undefined
  /\ indexedNetworkRecords = {}
  /\ reduceAt = 0
  /\ snapshotCall = NoCall
  /\ snapshot = <<>>
  /\ elements = <<>>
  /\ calls = <<>>
  /\ settleOrder = <<>>
  /\ values = <<>>
  /\ collector = <<>>
  /\ thisDriver = Undefined
  /\ sentTo = <<>>
  /\ firstRun = Undefined
  /\ AuxIdle

\* The pass is over and none of its calls is in flight.
Quiescent ==
  /\ passState \in {"resolved", "rejected", "thrown"}
  /\ InFlightCalls = {}

\* The parallel pass is over: keep what it was given and what came of it,
\* and start again with the serial version.
Rerun ==
  /\ firstRun = Undefined
  /\ Quiescent
  /\ firstRun' = Some([passState |-> passState, passResult |-> passResult,
                       networkRecords |-> networkRecords,
                       snapshotCall |-> snapshotCall, snapshot |-> snapshot,
                       elements |-> elements, calls |-> calls])
  /\ strategy' = "serial"
  /\ passState' = "idle"
  /\ passResult' = Undefined
  /\ passError' = Undefined
  /\ networkRecords' = Undefined
  /\ indexedNetworkRecords' = {}
  /\ reduceAt' = 0
  /\ snapshotCall' = NoCall
  /\ snapshot' = <<>>
  /\ elements' = <<>>
  /\ calls' = <<>>
  /\ settleOrder' = <<>>
  /\ values' = <<>>
  /\ collector' = <<>>
  /\ thisDriver' = Undefined
  /\ sentTo' = <<>>
  /\ UNCHANGED auxVars

\* The actions of a pass; those of the second pass get what the first got.
BothAfterPass(capture) ==
  /\ IF IsDefined(firstRun) THEN capture = firstRun[1].networkRecords
                            ELSE TRUE
  /\ AfterPass(capture)

BothSnapshotReject(e) ==
  /\ IF IsDefined(firstRun)
       THEN firstRun[1].snapshotCall = [status |-> "rejected", value |-> Some(e)]
       ELSE TRUE
  /\ SnapshotReject(e)

BothSnapshotResolve(tags) ==
  /\ IF IsDefined(firstRun)
       THEN /\ firstRun[1].snapshotCall.status = "resolved"
            /\ tags = firstRun[1].snapshot
       ELSE TRUE
  /\ SnapshotResolve(tags)

BothSizeResolve(i, size) ==
  /\ IF IsDefined(firstRun)
       THEN /\ i \in DOMAIN firstRun[1].calls
            /\ firstRun[1].calls[i] = [status |-> "resolved", value |-> Some(size)]
       ELSE TRUE
  /\ SizeResolve(i, size)

BothSizeReject(i, e) ==
  /\ IF IsDefined(firstRun)
       THEN /\ i \in DOMAIN firstRun[1].calls
            /\ firstRun[1].calls[i] = [status |-> "rejected", value |-> Some(e)]
       ELSE TRUE
  /\ SizeReject(i, e)

\* The snapshots the two passes are compared on.
BothSnapshots == SeqsUpTo(SnapshotElements, MaxBothElements)

NextBoth ==
  \/ \E capture \in Captures : BothAfterPass(capture)
  \/ \E e \in Errors : BothSnapshotReject(e)
  \/ \E tags \in BothSnapshots : BothSnapshotResolve(tags)
  \/ \E i \in 1..MaxBothElements, size \in ResolvedSizes : BothSizeResolve(i, size)
  \/ \E i \in 1..MaxBothElements, e \in Errors : BothSizeReject(i, e)
  \/ Rerun

SpecBoth == InitBoth /\ [][NextBoth]_vars

\* C18: when the serial pass is over, it has ended as the parallel pass on
\* the same inputs did, resolved or rejected, and if resolved, with the same
\* records in the same order, with the same natural sizes and with a network
\* record where the other has one.
C18_SameOutcome ==
  (IsDefined(firstRun) /\ Quiescent) =>
    /\ passState = firstRun[1].passState
    /\ passState = "resolved" =>
         /\ passResult = firstRun[1].passResult
         /\ Len(elements) = Len(firstRun[1].elements)
         /\ \A i \in DOMAIN elements :
              /\ NaturalSize(elements[i]) = NaturalSize(firstRun[1].elements[i])
              /\ IsDefined(elements[i].networkRecord)
                   <=> IsDefined(firstRun[1].elements[i].networkRecord)

\* Both passes resolved over two records, both with a size call, and the
\* two calls returned different sizes.
C18_Witness ==
  /\ IsDefined(firstRun)
  /\ passState = "resolved"
  /\ Len(elements) = 2
  /\ Len(settleOrder) = 2
  /\ calls[settleOrder[1]].value # calls[settleOrder[2]].value

----------------------------------------------------------------------------
(* formatters/table.js: Table.createTable and the 'pretty' formatter.      *)
(* A string is the sequence of its characters.                             *)

\* The character U+0060, which a TLA+ string cannot hold.
Backtick == "U+0060"

Digits == <<"0", "1", "2", "3", "4", "5", "6", "7", "8", "9">>

\* `${n}` of a non-negative integer.
RECURSIVE NumberToString(_)
NumberToString(n) ==
  IF n < 10 THEN <<Digits[n + 1]>>
  ELSE NumberToString(n \div 10) \o <<Digits[(n % 10) + 1]>>

RECURSIVE TrimStart(_)
TrimStart(str) ==
  IF str # <<>> /\ Head(str) = " " THEN TrimStart(Tail(str)) ELSE str

RECURSIVE TrimEnd(_)
TrimEnd(str) ==
  IF str # <<>> /\ str[Len(str)] = " "
    THEN TrimEnd(SubSeq(str, 1, Len(str) - 1))
    ELSE str

\* String.prototype.trim
Trim(str) == TrimEnd(TrimStart(str))

\* result[key], for the keys a result has.
ResultValue(result, key) ==
  CASE key = "url" -> result.url
    [] key = "code" -> Some(result.code)
    [] OTHER -> Undefined

\* A column function that wraps the snippet as it is.
ColumnUntrimmed(result, key) ==
  CASE key = "code" -> Some(<<Backtick>> \o result.code \o <<Backtick>>)
    [] key = "lineCol" ->
         Some(NumberToString(result.line) \o <<":">> \o NumberToString(result.col))
    [] OTHER -> ResultValue(result, key)

\* The switch of createTable: the column of a result for a heading key.
Column(result, key) ==
  CASE key = "code" -> Some(<<Backtick>> \o Trim(result.code) \o <<Backtick>>)
    [] key = "lineCol" ->
         Some(NumberToString(result.line) \o <<":">> \o NumberToString(result.col))
    [] OTHER -> ResultValue(result, key)

\* Table.createTable(headings, results).  The headings object is the
\* sequence of its properties in insertion order, which is the order of
\* Object.keys for keys that are not integers.
CreateTable(headings, results) ==
  LET headingKeys == [k \in DOMAIN headings |-> headings[k].key]
      rows == [r \in DOMAIN results |->
                 [cols |-> [k \in DOMAIN headingKeys |->
                              Column(results[r], headingKeys[k])]]]
  IN  [headings |-> [k \in DOMAIN headingKeys |-> headings[k].label],
       rows |-> rows]

\* The text the formatter adds for the columns of a row from the k-th on.
RECURSIVE ColsText(_, _)
ColsText(cols, k) ==
  IF k > Len(cols) THEN <<>>
  ELSE LET col == cols[k][1]
       IN  (IF col # <<>> /\ col[1] = Backtick /\ col[Len(col)] = Backtick
              THEN <<>>
              ELSE col \o <<" ">>)
           \o ColsText(cols, k + 1)

RECURSIVE RowsText(_, _)
RowsText(rows, r) ==
  IF r > Len(rows) THEN <<>>
  ELSE <<" ", " ", " ", " ", " ", " ">> \o ColsText(rows[r].cols, 1)
       \o <<"\n">> \o RowsText(rows, r + 1)

Returned(text) == [status |-> "returned", text |-> text]
Thrown == [status |-> "thrown", text |-> <<>>]

\* A formatter without the test of its argument.
PrettyUnguarded(result) ==
  IF result.kind # "object" THEN Thrown
  ELSE IF \/ ~IsDefined(result.table)
          \/ ~result.table[1].headings.isArray
          \/ ~result.table[1].rows.isArray
    THEN Returned(<<>>)
  ELSE IF \E r \in DOMAIN result.table[1].rows.items :
            \E k \in DOMAIN result.table[1].rows.items[r].cols :
              ~IsDefined(result.table[1].rows.items[r].cols[k])
    THEN Thrown
  ELSE Returned(RowsText(result.table[1].rows.items, 1))

\* Table.getFormatter('pretty')(result).  col.startsWith of a column that
\* is undefined throws a TypeError.
Pretty(result) ==
  IF result.kind # "object" THEN Returned(<<>>)
  ELSE IF \/ ~IsDefined(result.table)
          \/ ~result.table[1].headings.isArray
          \/ ~result.table[1].rows.isArray
    THEN Returned(<<>>)
  ELSE IF \E r \in DOMAIN result.table[1].rows.items :
            \E k \in DOMAIN result.table[1].rows.items[r].cols :
              ~IsDefined(result.table[1].rows.items[r].cols[k])
    THEN Thrown
  ELSE Returned(RowsText(result.table[1].rows.items, 1))

----------------------------------------------------------------------------
(* createTable called once, then the formatter once. *)

HeadingKeys == {"url", "lineCol", "code"}
HeadingLabel(key) ==
  CASE key = "url" -> "URL" [] key = "lineCol" -> "Line/col"
    [] OTHER -> "Snippet"

\* The headings objects: every order of every set of keys.
HeadingsObjects ==
  {h \in SeqsUpTo([key : HeadingKeys, label : {"URL", "Line/col", "Snippet"}],
                  Cardinality(HeadingKeys)) :
     /\ \A k \in DOMAIN h : h[k].label = HeadingLabel(h[k].key)
     /\ \A j, k \in DOMAIN h : j # k => h[j].key # h[k].key}

AuditResults ==
  [url : {Undefined, Some(<<"h">>)}, line : {1, 23}, col : {4},
   code : {<<"x">>, <<" ", "x", " ">>, <<" ">>}]

AnArray(items) == [isArray |-> TRUE, items |-> items]
NotAnArray == [isArray |-> FALSE, items |-> <<>>]

\* What the formatter is called with: undefined, null, an object without a
\* table, a table whose headings or rows is not an array, or the table
\* createTable returned.
PrettyArguments ==
  {[kind |-> "undefined", table |-> Undefined],
   [kind |-> "null", table |-> Undefined],
   [kind |-> "object", table |-> Undefined],
   [kind |-> "object",
    table |-> Some([headings |-> NotAnArray, rows |-> AnArray(table[1].rows)])],
   [kind |-> "object",
    table |-> Some([headings |-> AnArray(table[1].headings), rows |-> NotAnArray])],
   [kind |-> "object",
    table |-> Some([headings |-> AnArray(table[1].headings),
                    rows |-> AnArray(table[1].rows)])]}

InitTable ==
  /\ tableArgs \in {Some([headings |-> h, results |-> r]) :
                      h \in HeadingsObjects,
                      r \in SeqsUpTo(AuditResults, MaxResults)}
  /\ table = Undefined
  /\ formatted = Undefined
  /\ document = <<>>
  /\ collected = <<>>
  /\ srcset = Undefined
  /\ srcsetUrls = Undefined
  /\ PassIdle

CallCreateTable ==
  /\ table = Undefined
  /\ table' = Some(CreateTable(tableArgs[1].headings, tableArgs[1].results))
  /\ UNCHANGED <<passVars, firstRun, tableArgs, formatted, document, collected,
                 srcset, srcsetUrls>>

CallPretty(result) ==
  /\ formatted = Undefined
  /\ formatted' = Some([argument |-> result, outcome |-> Pretty(result)])
  /\ UNCHANGED <<passVars, firstRun, tableArgs, table, document, collected,
                 srcset, srcsetUrls>>

NextTable ==
  \/ CallCreateTable
  \/ IsDefined(table) /\ \E result \in PrettyArguments : CallPretty(result)

SpecTable == InitTable /\ [][NextTable]_vars

----------------------------------------------------------------------------
(* What is claimed of createTable and of the formatter. *)

DigitValue(c) == CHOOSE d \in 0..9 : Digits[d + 1] = c

\* The number a string of decimal digits writes.
RECURSIVE DecimalValue(_)
DecimalValue(str) ==
  IF str = <<>> THEN 0
  ELSE 10 * DecimalValue(SubSeq(str, 1, Len(str) - 1))
       + DigitValue(str[Len(str)])

\* str writes n in decimal, without a sign and without leading zeros.
Writes(str, n) ==
  /\ str # <<>>
  /\ \A k \in DOMAIN str : \E d \in 0..9 : Digits[d + 1] = str[k]
  /\ Len(str) > 1 => str[1] # "0"
  /\ DecimalValue(str) = n

\* inner is str without the spaces at its two ends.
Trimmed(inner, str) ==
  /\ inner # <<>> => inner[1] # " " /\ inner[Len(inner)] # " "
  /\ \E i \in 1..(Len(str) + 1) :
       /\ i + Len(inner) - 1 <= Len(str)
       /\ inner = SubSeq(str, i, i + Len(inner) - 1)
       /\ \A k \in DOMAIN str :
            (k < i \/ k > i + Len(inner) - 1) => str[k] = " "

\* C13: createTable returns the heading labels in the key order of the
\* headings object, one row per result in result order, and in every row one
\* column per heading key: '<line>:<col>' for 'lineCol', the trimmed snippet
\* between two backticks for 'code', and the result's own value for any
\* other key.
C13_TableShape ==
  IsDefined(table) =>
    LET headings == tableArgs[1].headings
        results == tableArgs[1].results
    IN  /\ DOMAIN table[1].headings = DOMAIN headings
        /\ \A k \in DOMAIN headings :
             table[1].headings[k] = headings[k].label
        /\ DOMAIN table[1].rows = DOMAIN results
        /\ \A r \in DOMAIN results :
             LET cols == table[1].rows[r].cols
             IN  /\ DOMAIN cols = DOMAIN headings
                 /\ \A k \in DOMAIN headings :
                      CASE headings[k].key = "lineCol" ->
                             /\ IsDefined(cols[k])
                             /\ \E p \in DOMAIN cols[k][1] :
                                  /\ cols[k][1][p] = ":"
                                  /\ Writes(SubSeq(cols[k][1], 1, p - 1),
                                            results[r].line)
                                  /\ Writes(SubSeq(cols[k][1], p + 1,
                                                   Len(cols[k][1])),
                                            results[r].col)
                        [] headings[k].key = "code" ->
                             /\ IsDefined(cols[k])
                             /\ Len(cols[k][1]) >= 2
                             /\ cols[k][1][1] = Backtick
                             /\ cols[k][1][Len(cols[k][1])] = Backtick
                             /\ Trimmed(SubSeq(cols[k][1], 2,
                                               Len(cols[k][1]) - 1),
                                        results[r].code)
                        [] OTHER -> cols[k] = results[r].url

\* A table of two rows whose headings put the snippet first, with a snippet
\* that has spaces around it and a line number of two digits.
C13_Witness ==
  /\ IsDefined(table)
  /\ Len(table[1].headings) = 3
  /\ tableArgs[1].headings[1].key = "code"
  /\ tableArgs[1].headings[2].key = "url"
  /\ Len(table[1].rows) = 2
  /\ tableArgs[1].results[1].code = <<" ", "x", " ">>
  /\ tableArgs[1].results[1].line = 23
  /\ tableArgs[1].results[2].url = Undefined

\* The inputs the formatter answers with the empty string.
InvalidArgument(result) ==
  \/ result.kind \in {"undefined", "null"}
  \/ ~IsDefined(result.table)
  \/ ~result.table[1].headings.isArray
  \/ ~result.table[1].rows.isArray

\* A table whose headings and rows are arrays and whose columns are strings.
ValidTable(result) ==
  /\ ~InvalidArgument(result)
  /\ \A r \in DOMAIN result.table[1].rows.items :
       \A k \in DOMAIN result.table[1].rows.items[r].cols :
         IsDefined(result.table[1].rows.items[r].cols[k])

Wrapped(col) ==
  col # <<>> /\ col[1] = Backtick /\ col[Len(col)] = Backtick

\* The length of a printed row: the indent, each column that is not wrapped
\* in backticks with the space after it, and the end of line.
RECURSIVE PrintedLength(_, _)
PrintedLength(cols, kept) ==
  IF kept = {} THEN 7
  ELSE LET k == CHOOSE k \in kept : TRUE
       IN  Len(cols[k][1]) + 1 + PrintedLength(cols, kept \ {k})

RECURSIVE TotalLength(_, _)
TotalLength(rows, todo) ==
  IF todo = {} THEN 0
  ELSE LET r == CHOOSE r \in todo : TRUE
       IN  PrintedLength(rows[r].cols,
                         {k \in DOMAIN rows[r].cols :
                            ~Wrapped(rows[r].cols[k][1])})
           + TotalLength(rows, todo \ {r})

----------------------------------------------------------------------------
(* collectImageTagInfo: the map over document.querySelectorAll('img').     *)
(* The document is the sequence of its img elements in document order,     *)
(* each with its parent element and the parent's children; the img itself  *)
(* is the child whose tagName is IMG.                                      *)

\* The media queries window.matchMedia answers with matches: true.
MatchingMedia == {"m1"}

\* toObject(tag), without the fields that play no part in the sources list.
ToObject(tag) == [tagName |-> tag.tagName, src |-> tag.src, media |-> tag.media]

\* The two filters of the children, without the media test.
SourcesUnfiltered(children) ==
  SelectSeq(children, LAMBDA tag : tag.tagName = "SOURCE")

\* [...tag.parentElement.children].filter(SOURCE).filter(media)
MatchingSources(children) ==
  SelectSeq(SelectSeq(children, LAMBDA tag : tag.tagName = "SOURCE"),
            LAMBDA tag : \/ tag.media = Some("")
                         \/ tag.media[1] \in MatchingMedia)

\* The callback of the map, for the img of a parent.
CollectOne(parent) ==
  LET tag == CHOOSE c \in {parent.children[k] : k \in DOMAIN parent.children} :
               c.tagName = "IMG"
      imgTagInfo == ToObject(tag)
  IN  IF parent.tagName # "PICTURE"
        THEN [info |-> imgTagInfo, isPicture |-> FALSE, sources |-> Undefined]
        ELSE LET matching == MatchingSources(parent.children)
                 sources == [k \in DOMAIN matching |-> ToObject(matching[k])]
                              \o <<imgTagInfo>>
             IN  [info |-> imgTagInfo, isPicture |-> TRUE,
                  sources |-> Some([form |-> "json", items |-> sources])]

Children ==
  {[tagName |-> "SOURCE", src |-> "s", media |-> Some(m)] :
     m \in {"", "m1", "m2"}}
  \cup {[tagName |-> "P", src |-> "", media |-> Undefined],
        [tagName |-> "IMG", src |-> "a", media |-> Undefined]}

OneImg(children) ==
  Cardinality({k \in DOMAIN children : children[k].tagName = "IMG"}) = 1

\* An img in a picture among up to MaxSources other children, or in a div
\* with at most one other child.
Parents ==
  {[tagName |-> "PICTURE", children |-> c] :
     c \in {c \in SeqsUpTo(Children, MaxSources + 1) : OneImg(c)}}
  \cup {[tagName |-> "DIV", children |-> c] :
          c \in {c \in SeqsUpTo(Children, 2) : OneImg(c)}}

InitCollect ==
  /\ document \in SeqsUpTo(Parents, MaxImgs)
  /\ collected = Undefined
  /\ tableArgs = Undefined
  /\ table = Undefined
  /\ formatted = Undefined
  /\ srcset = Undefined
  /\ srcsetUrls = Undefined
  /\ PassIdle

CollectImageTagInfo ==
  /\ collected = Undefined
  /\ collected' = Some([i \in DOMAIN document |-> CollectOne(document[i])])
  /\ UNCHANGED <<passVars, firstRun, tableArgs, table, formatted, document,
                 srcset, srcsetUrls>>

NextCollect == CollectImageTagInfo

SpecCollect == InitCollect /\ [][NextCollect]_vars

\* The children of a picture that are SOURCE elements without a media
\* condition or with one that matches.
Alternatives(children) ==
  {k \in DOMAIN children :
     /\ children[k].tagName = "SOURCE"
     /\ \/ children[k].media = Some("")
        \/ children[k].media[1] \in MatchingMedia}

\* C19: for an img whose parent is a picture, the sources list is the
\* picture's SOURCE children without a media condition or with a matching
\* one, in document order, followed by the img's own descriptor, so it is
\* never empty; an img outside a picture has isPicture false and no sources.
C19_SourcesList ==
  IsDefined(collected) =>
    /\ DOMAIN collected[1] = DOMAIN document
    /\ \A i \in DOMAIN document :
         LET children == document[i].children
             entry == collected[1][i]
         IN  IF document[i].tagName = "PICTURE"
               THEN /\ entry.isPicture
                    /\ IsDefined(entry.sources)
                    /\ LET items == entry.sources[1].items
                           n == Len(items) - 1
                       IN  /\ n >= 0
                           /\ items[n + 1] = entry.info
                           /\ items[n + 1].tagName = "IMG"
                           /\ \E f \in [1..n -> DOMAIN children] :
                                /\ \A j, k \in 1..n : j < k => f[j] < f[k]
                                /\ {f[j] : j \in 1..n} = Alternatives(children)
                                /\ \A j \in 1..n :
                                     /\ items[j].tagName = "SOURCE"
                                     /\ items[j].src = children[f[j]].src
                                     /\ items[j].media = children[f[j]].media
               ELSE /\ ~entry.isPicture
                    /\ ~IsDefined(entry.sources)

\* A picture whose children are a source that matches, the img, and a
\* source that does not match.
C19_Witness ==
  /\ IsDefined(collected)
  /\ Len(document) = 1
  /\ document[1].tagName = "PICTURE"
  /\ Len(document[1].children) = 3
  /\ document[1].children[1].media = Some("m1")
  /\ document[1].children[2].tagName = "IMG"
  /\ document[1].children[3].media = Some("m2")
  /\ Len(collected[1][1].sources[1].items) = 2

----------------------------------------------------------------------------
(* parseSrcsetUrls.  A URL is normalized against the page's address unless *)
(* it holds a character the URL parser rejects, written "!".               *)

\* The address of the page, window.location.href.
BaseUrl == <<"B">>

\* str.split(sep) for a separator of one character.
RECURSIVE Split(_, _)
Split(str, sep) ==
  IF \A k \in DOMAIN str : str[k] # sep THEN <<str>>
  ELSE LET p == CHOOSE p \in DOMAIN str :
                  /\ str[p] = sep
                  /\ \A q \in 1..(p - 1) : str[q] # sep
       IN  <<SubSeq(str, 1, p - 1)>> \o Split(SubSeq(str, p + 1, Len(str)), sep)

Parses(url) == \A k \in DOMAIN url : url[k] # "!"

\* try { return new URL(url, window.location.href).href } catch (e) { return url }
NormalizeUrl(url) == IF Parses(url) THEN BaseUrl \o url ELSE url

\* A parser that leaves out the URLs that do not normalize.
ParseSrcsetUrlsDropInvalid(value) ==
  IF ~IsDefined(value) \/ value[1] = <<>> THEN <<>>
  ELSE LET entries == Split(value[1], ",")
           relativeUrls == [k \in DOMAIN entries |->
                              Split(Trim(entries[k]), " ")[1]]
           valid == SelectSeq(relativeUrls, Parses)
       IN  [k \in DOMAIN valid |-> NormalizeUrl(valid[k])]

\* parseSrcsetUrls(srcset)
ParseSrcsetUrls(value) ==
  IF ~IsDefined(value) \/ value[1] = <<>> THEN <<>>
  ELSE LET entries == Split(value[1], ",")
           relativeUrls == [k \in DOMAIN entries |->
                              Split(Trim(entries[k]), " ")[1]]
       IN  [k \in DOMAIN relativeUrls |-> NormalizeUrl(relativeUrls[k])]

SrcsetChars == {"u", "!", " ", ","}

InitSrcset ==
  /\ srcset \in {Undefined}
                \cup {Some(str) : str \in SeqsUpTo(SrcsetChars, MaxSrcsetLen)}
  /\ srcsetUrls = Undefined
  /\ tableArgs = Undefined
  /\ table = Undefined
  /\ formatted = Undefined
  /\ document = <<>>
  /\ collected = Undefined
  /\ PassIdle

CallParseSrcsetUrls ==
  /\ srcsetUrls = Undefined
  /\ srcsetUrls' = Some(ParseSrcsetUrls(srcset))
  /\ UNCHANGED <<passVars, firstRun, tableArgs, table, formatted, document,
                 collected, srcset>>

NextSrcset == CallParseSrcsetUrls

SpecSrcset == InitSrcset /\ [][NextSrcset]_vars

\* The positions of the commas of a srcset.
Commas(str) == {p \in DOMAIN str : str[p] = ","}

\* The k-th comma-separated candidate: what lies between the comma before
\* it and the comma after it.
Candidate(str, k) ==
  LET before == {p \in Commas(str) :
                   Cardinality({q \in Commas(str) : q < p}) = k - 2}
      after == {p \in Commas(str) :
                  Cardinality({q \in Commas(str) : q < p}) = k - 1}
      from == IF before = {} THEN 1 ELSE (CHOOSE p \in before : TRUE) + 1
      to == IF after = {} THEN Len(str) ELSE (CHOOSE p \in after : TRUE) - 1
  IN  SubSeq(str, from, to)

\* url is the URL of a candidate: its first run of characters that are not
\* spaces, empty when the candidate has none.
UrlOf(url, candidate) ==
  /\ \A k \in DOMAIN url : url[k] # " "
  /\ IF url = <<>>
       THEN \A k \in DOMAIN candidate : candidate[k] = " "
       ELSE \E i \in DOMAIN candidate :
              /\ \A k \in 1..(i - 1) : candidate[k] = " "
              /\ i + Len(url) - 1 <= Len(candidate)
              /\ url = SubSeq(candidate, i, i + Len(url) - 1)
              /\ i + Len(url) <= Len(candidate) => candidate[i + Len(url)] = " "

\* C20: parseSrcsetUrls returns the empty sequence for an empty srcset and
\* otherwise one URL per comma-separated candidate, in declaration order;
\* a candidate URL that cannot be normalized stays verbatim at its position.
C20_OnePerCandidate ==
  IsDefined(srcsetUrls) =>
    IF ~IsDefined(srcset) \/ srcset[1] = <<>>
      THEN srcsetUrls[1] = <<>>
      ELSE LET str == srcset[1]
               urls == srcsetUrls[1]
           IN  /\ Len(urls) = Cardinality(Commas(str)) + 1
               /\ \A k \in DOMAIN urls :
                    \/ /\ ~Parses(urls[k])
                       /\ UrlOf(urls[k], Candidate(str, k))
                    \/ /\ Parses(urls[k])
                       /\ Len(urls[k]) >= Len(BaseUrl)
                       /\ SubSeq(urls[k], 1, Len(BaseUrl)) = BaseUrl
                       /\ UrlOf(SubSeq(urls[k], Len(BaseUrl) + 1, Len(urls[k])),
                                Candidate(str, k))

\* A srcset of two candidates, the first of which does not normalize.
C20_Witness ==
  /\ IsDefined(srcsetUrls)
  /\ srcset = Some(<<"!", " ", ",", "u">>)
  /\ Len(srcsetUrls[1]) = 2
  /\ srcsetUrls[1][1] = <<"!">>

====
